---- MODULE Spec2Model ----
(***************************************************************************)
(* A model of cnxlegacydb2epub.py: the walk over a collection tree         *)
(* (extract_content / flatten_tree_to_ident_hashs), the export loop of     *)
(* main, and the reference resolver (parse_reference, ReferenceResolver).  *)
(*                                                                         *)
(* Python strings are modelled as sequences of one-character strings, so   *)
(* that splitting, prefix tests, stripping, formatting and the matching of *)
(* PATH_REFERENCE_REGEX are computed character by character.               *)
(***************************************************************************)
EXTENDS Integers, Sequences, FiniteSets, TLC

(***************************************************************************)
(* Strings                                                                 *)
(***************************************************************************)

\* None, the value of an unmatched regex group and of an absent result. It is
\* a sequence that is no string of characters, so that it compares with strings.
None == <<"None">>

\* The truth value of a string or None in a condition.
Truthy(v) == v # None /\ v # <<>>

Digits == {"0", "1", "2", "3", "4", "5", "6", "7", "8", "9"}

LowerLetters ==
    {"a", "b", "c", "d", "e", "f", "g", "h", "i", "j", "k", "l", "m",
     "n", "o", "p", "q", "r", "s", "t", "u", "v", "w", "x", "y", "z"}

UpperLetters ==
    {"A", "B", "C", "D", "E", "F", "G", "H", "I", "J", "K", "L", "M",
     "N", "O", "P", "Q", "R", "S", "T", "U", "V", "W", "X", "Y", "Z"}

\* The characters str.strip() removes (those that occur in the model).
Whitespace == {" ", "\n", "\t"}

\* \w of the regex: letters, digits and the underscore.
IsWord(c) == c \in LowerLetters \cup UpperLetters \cup Digits \cup {"_"}

\* The characters of the range ' '-'_' (0x20 to 0x5F) of the resource class.
SpaceToUnderscore ==
    {" ", "!", "\"", "#", "$", "%", "&", "'", "(", ")", "*", "+", ",", "-",
     ".", "/", ":", ";", "<", "=", ">", "?", "@", "[", "\\", "]", "^", "_"}
        \cup Digits \cup UpperLetters

\* [ -_.@\w\d], the class of the second and later characters of a resource.
IsResourceChar(c) == c \in SpaceToUnderscore \/ c \in {".", "@"} \/ IsWord(c)

\* str.lower() of one character, for the letters of the literal words of the
\* regex ("m", "col", "content/", "latest"); re.IGNORECASE compares through it.
Lower(c) ==
    CASE c = "M" -> "m" [] c = "C" -> "c" [] c = "O" -> "o" [] c = "L" -> "l"
      [] c = "N" -> "n" [] c = "T" -> "t" [] c = "E" -> "e" [] c = "A" -> "a"
      [] c = "S" -> "s" [] OTHER -> c

\* s[from..to] as a sequence (empty when from > to).
Slice(s, from, to) == SubSeq(s, from, to)

\* str.startswith(prefix)
StartsWith(s, prefix) ==
    /\ Len(prefix) <= Len(s)
    /\ SubSeq(s, 1, Len(prefix)) = prefix

\* Whether the characters of s from position p on spell word, ignoring case.
LooksAt(s, p, word) ==
    /\ p + Len(word) - 1 <= Len(s)
    /\ \A i \in 1..Len(word) : Lower(s[p + i - 1]) = word[i]

\* str.strip(): leading and trailing whitespace removed.
RECURSIVE LStrip(_)
LStrip(s) ==
    IF s # <<>> /\ Head(s) \in Whitespace THEN LStrip(Tail(s)) ELSE s

RECURSIVE RStrip(_)
RStrip(s) ==
    IF s # <<>> /\ s[Len(s)] \in Whitespace
    THEN RStrip(SubSeq(s, 1, Len(s) - 1))
    ELSE s

Strip(s) == RStrip(LStrip(s))

\* str.split(sep) for a one-character separator: the list of the parts.
RECURSIVE Split(_, _)
Split(s, sep) ==
    IF \A i \in 1..Len(s) : s[i] # sep
    THEN <<s>>
    ELSE LET k == CHOOSE i \in 1..Len(s) :
                      s[i] = sep /\ \A j \in 1..(i - 1) : s[j] # sep
         IN  <<SubSeq(s, 1, k - 1)>> \o Split(SubSeq(s, k + 1, Len(s)), sep)

(***************************************************************************)
(* PATH_REFERENCE_REGEX, matched as Python's backtracking matcher does: at *)
(* every optional or repeated item the greedy alternative is tried first,  *)
(* and the first way of matching the whole string is the match. The regex  *)
(* is, in order: an optional first group (an optional slash, an optional   *)
(* "content/", spaces, the module id "m" or "col" with 4 to 5 digits, and  *)
(* an optional version after "/" or "@": dots and digits, or "latest"), an *)
(* optional slash, an optional resource (one character other than "#" and  *)
(* then one or more characters of the resource class), an optional         *)
(* fragment (an optional "#" and any characters but newlines), the end.    *)
(***************************************************************************)

\* The concatenation of a sequence of sequences.
RECURSIVE ConcatAll(_)
ConcatAll(seqs) ==
    IF seqs = <<>> THEN <<>> ELSE Head(seqs) \o ConcatAll(Tail(seqs))

\* The index of the first element of seq that satisfies Ok, 0 when none does.
FirstIndex(seq, Ok(_)) ==
    IF \E i \in 1..Len(seq) : Ok(seq[i])
    THEN CHOOSE i \in 1..Len(seq) :
             Ok(seq[i]) /\ \A j \in 1..(i - 1) : ~Ok(seq[j])
    ELSE 0

\* The number of consecutive characters from position p on that satisfy In.
RunLength(s, p, In(_)) ==
    IF p > Len(s) \/ ~In(s[p]) THEN 0
    ELSE LET stops == {q \in p..Len(s) : ~In(s[q])}
         IN  IF stops = {} THEN Len(s) - p + 1
             ELSE (CHOOSE q \in stops : \A r \in stops : q <= r) - p

\* '$' without re.MULTILINE: the end of the string, or just before a newline
\* that ends the string.
AtEnd(s, p) == p = Len(s) + 1 \/ (p = Len(s) /\ s[p] = "\n")

IsNotNewline(c) == c # "\n"

\* (?P<fragment>#?.*)?$ from position p: the position after the fragment, 0
\* when the rest cannot be matched. '#?' and '.*' are greedy, '.' matches no
\* newline, and the empty fragment is tried before the group is skipped.
FragmentEnd(s, p) ==
    LET longest == p + RunLength(s, p, IsNotNewline)
        ends == [i \in 1..(longest - p + 1) |-> longest + 1 - i]
        k == FirstIndex(ends, LAMBDA q : AtEnd(s, q))
    IN  IF k = 0 THEN 0 ELSE ends[k]

\* (?P<resource>[^#][ -_.@\w\d]+)? from position p: the positions after the
\* resource that the matcher tries, longest first; p itself (the group
\* skipped) comes last.
ResourceEnds(s, p) ==
    IF p <= Len(s) /\ s[p] # "#"
    THEN LET run == RunLength(s, p + 1, IsResourceChar)
         IN  [i \in 1..run |-> p + 1 + run + 1 - i] \o <<p>>
    ELSE <<p>>

\* The result of matching from a resource on: the resource is
\* s[from..rto-1] (none when rto = from), the fragment s[rto..fto-1].
TailMatch(from, rto, fto) == [ok |-> fto # 0, from |-> from, rto |-> rto, fto |-> fto]

TailAt(s, p, ends, k) ==
    IF k = 0 THEN TailMatch(p, p, 0)
    ELSE TailMatch(p, ends[k], FragmentEnd(s, ends[k]))

TailAmong(s, p, ends) ==
    TailAt(s, p, ends, FirstIndex(ends, LAMBDA q : FragmentEnd(s, q) # 0))

\* The optional resource, the optional fragment and the end from position p.
ResourceAndFragment(s, p) == TailAmong(s, p, ResourceEnds(s, p))

FirstOk(first, second) == IF first.ok THEN first ELSE second

\* The optional slash, and then the resource, the fragment and the end, from
\* position p: the slash is taken first.
PathTail(s, p) ==
    IF p <= Len(s) /\ s[p] = "/"
    THEN FirstOk(ResourceAndFragment(s, p + 1), ResourceAndFragment(s, p))
    ELSE ResourceAndFragment(s, p)

\* /? from position p: the positions after it, the slash taken first.
SlashEnds(s, p) ==
    IF p <= Len(s) /\ s[p] = "/" THEN <<p + 1, p>> ELSE <<p>>

\* (content/)? from position p.
ContentEnds(s, p) ==
    IF LooksAt(s, p, <<"c", "o", "n", "t", "e", "n", "t", "/">>)
    THEN <<p + 8, p>>
    ELSE <<p>>

IsSpace(c) == c = " "

\* ' *' from position p: the longest run of spaces first.
SpaceEnds(s, p) ==
    LET run == RunLength(s, p, IsSpace)
    IN  [i \in 1..(run + 1) |-> p + run + 1 - i]

IsDigit(c) == c \in Digits

\* \d{4,5} after a prefix that ends before position p: five digits first.
DigitEnds(s, p) ==
    LET run == RunLength(s, p, IsDigit)
    IN  IF run >= 5 THEN <<p + 5, p + 4>>
        ELSE IF run = 4 THEN <<p + 4>>
        ELSE <<>>

\* (?P<module>(m|col)\d{4,5}) from position p: the positions after it.
ModuleEnds(s, p) ==
    (IF LooksAt(s, p, <<"m">>) THEN DigitEnds(s, p + 1) ELSE <<>>)
        \o (IF LooksAt(s, p, <<"c", "o", "l">>) THEN DigitEnds(s, p + 3) ELSE <<>>)

IsDotOrDigit(c) == c = "." \/ c \in Digits

\* ([/@](?P<version>([.\d]+|latest)))? from position p: the ways the matcher
\* tries, as [vfrom, vto]: the version is s[vfrom..vto-1], and vfrom = 0 when
\* the group is skipped (the matcher then goes on from vto = p).
VersionEnds(s, p) ==
    IF p <= Len(s) /\ s[p] \in {"/", "@"}
    THEN LET run == RunLength(s, p + 1, IsDotOrDigit)
         IN  [i \in 1..run |-> [vfrom |-> p + 1, vto |-> p + 1 + run + 1 - i]]
             \o (IF LooksAt(s, p + 1, <<"l", "a", "t", "e", "s", "t">>)
                 THEN <<[vfrom |-> p + 1, vto |-> p + 7]>>
                 ELSE <<>>)
             \o <<[vfrom |-> 0, vto |-> p]>>
    ELSE <<[vfrom |-> 0, vto |-> p]>>

\* The sequence of F(x) for the elements x of seq.
MapSeq(seq, F(_)) == [i \in 1..Len(seq) |-> F(seq[i])]

\* The positions at which the module id may start: after the optional slash,
\* the optional "content/" and the spaces, in the order the matcher tries.
ModuleStarts(s) ==
    ConcatAll(MapSeq(SlashEnds(s, 1), LAMBDA p1 :
        ConcatAll(MapSeq(ContentEnds(s, p1), LAMBDA p2 : SpaceEnds(s, p2)))))

\* The ways of matching the first group with the module id s[mfrom..mto-1].
WithVersions(s, mfrom, mto) ==
    MapSeq(VersionEnds(s, mto), LAMBDA v :
        [mfrom |-> mfrom, mto |-> mto, vfrom |-> v.vfrom, vto |-> v.vto])

\* The ways of matching the first group with the module id starting at mfrom.
WithModules(s, mfrom) ==
    ConcatAll(MapSeq(ModuleEnds(s, mfrom), LAMBDA mto : WithVersions(s, mfrom, mto)))

\* The ways of matching the first group, in the order the matcher tries them,
\* as [mfrom, mto, vfrom, vto]; the last one is the group skipped (mfrom = 0).
ModulePrefixes(s) ==
    ConcatAll(MapSeq(ModuleStarts(s), LAMBDA mfrom : WithModules(s, mfrom)))
        \o <<[mfrom |-> 0, mto |-> 1, vfrom |-> 0, vto |-> 1]>>

\* The groupdict of a match with the first group c and the tail t; a group
\* that took no part in the match is None.
GroupDict(ref, c, t) ==
    [matched |-> TRUE,
     module |-> IF c.mfrom = 0 THEN None ELSE Slice(ref, c.mfrom, c.mto - 1),
     version |-> IF c.vfrom = 0 THEN None ELSE Slice(ref, c.vfrom, c.vto - 1),
     resource |-> IF t.rto = t.from THEN None ELSE Slice(ref, t.from, t.rto - 1),
     fragment |-> Slice(ref, t.rto, t.fto - 1)]

NoMatch ==
    [matched |-> FALSE, module |-> None, version |-> None,
     resource |-> None, fragment |-> None]

MatchAt(ref, prefixes, k) ==
    IF k = 0 THEN NoMatch
    ELSE GroupDict(ref, prefixes[k], PathTail(ref, prefixes[k].vto))

MatchAmong(ref, prefixes) ==
    MatchAt(ref, prefixes, FirstIndex(prefixes, LAMBDA c : PathTail(ref, c.vto).ok))

\* PATH_REFERENCE_REGEX.match(ref) and its groupdict: matched is FALSE when
\* nothing matches.
RegexMatch(ref) == MatchAmong(ref, ModulePrefixes(ref))

MODULE_REFERENCE == "module-reference"
RESOURCE_REFERENCE == "resource-reference"

\* The type None of a reference that is neither of the two.
NO_REFERENCE == "None"

\* A variant of lines 341-343 that keeps "latest" as the version.
ParsedVersionKept(version) == version

\* Lines 341-343: the version, "latest" being None.
ParsedVersion(version) ==
    IF version = <<"l", "a", "t", "e", "s", "t">> THEN None ELSE version

\* Lines 341-355: the type and value of a match.
Classify(matches) ==
    IF ~matches.matched
    THEN [raised |-> TRUE, type |-> NO_REFERENCE, value |-> <<>>]
    ELSE IF Truthy(matches.resource)
    THEN [raised |-> FALSE, type |-> RESOURCE_REFERENCE,
          value |-> <<Strip(matches.resource), matches.module,
                      ParsedVersion(matches.version)>>]
    ELSE IF Truthy(matches.module)
    THEN [raised |-> FALSE, type |-> MODULE_REFERENCE,
          value |-> <<matches.module, ParsedVersion(matches.version),
                      matches.fragment>>]
    ELSE [raised |-> FALSE, type |-> NO_REFERENCE, value |-> <<>>]

\* parse_reference(ref): raised is TRUE for the ValueError of an unparsable
\* value, and else (type, value) is the result, value being the tuple
\* (filename, module, version), (module, version, fragment) or ().
parse_reference(ref) == Classify(RegexMatch(ref))

(***************************************************************************)
(* The repository: the rows the SQL statements of the program read. It is  *)
(* the external collaborator of the program; the statements are modelled   *)
(* by what they select from these tables.                                  *)
(***************************************************************************)

COLLECTION_TYPE == "Collection"
MODULE_TYPE == "Module"

\* The table modules. uuid and version are the id and version of the exported
\* content (SQL_GET_MODULE), moduleid and legacy_version the legacy id and
\* version a reference names; licensed tells whether the row joins a row of
\* licenses, and latest whether the row is in the view latest_modules.
modules == <<
    [module_ident |-> 1, uuid |-> <<"R">>, version |-> <<"1">>,
     moduleid |-> <<"c", "o", "l", "1", "0", "0", "0", "1">>, legacy_version |-> <<"1", ".", "1">>,
     portal_type |-> COLLECTION_TYPE, licensed |-> TRUE, latest |-> TRUE],
    [module_ident |-> 2, uuid |-> <<"A">>, version |-> <<"1">>,
     moduleid |-> <<"c", "o", "l", "1", "0", "0", "0", "2">>, legacy_version |-> <<"1", ".", "1">>,
     portal_type |-> COLLECTION_TYPE, licensed |-> TRUE, latest |-> TRUE],
    [module_ident |-> 3, uuid |-> <<"C">>, version |-> <<"1">>,
     moduleid |-> <<"c", "o", "l", "1", "0", "0", "0", "3">>, legacy_version |-> <<"1", ".", "1">>,
     portal_type |-> COLLECTION_TYPE, licensed |-> TRUE, latest |-> TRUE],
    [module_ident |-> 4, uuid |-> <<"x">>, version |-> <<"1">>,
     moduleid |-> <<"m", "1", "0", "0", "0", "1">>, legacy_version |-> <<"1", ".", "1">>,
     portal_type |-> MODULE_TYPE, licensed |-> TRUE, latest |-> FALSE],
    [module_ident |-> 5, uuid |-> <<"y">>, version |-> <<"1">>,
     moduleid |-> <<"m", "1", "0", "0", "0", "2">>, legacy_version |-> <<"1", ".", "1">>,
     portal_type |-> MODULE_TYPE, licensed |-> TRUE, latest |-> TRUE],
    [module_ident |-> 6, uuid |-> <<"w">>, version |-> <<"1">>,
     moduleid |-> <<"m", "1", "0", "0", "0", "4">>, legacy_version |-> <<"1", ".", "1">>,
     portal_type |-> MODULE_TYPE, licensed |-> TRUE, latest |-> TRUE],
    [module_ident |-> 7, uuid |-> <<"o">>, version |-> <<"2", ".", "1">>,
     moduleid |-> <<"m", "1", "0", "0", "0", "3">>, legacy_version |-> <<"1", ".", "3">>,
     portal_type |-> MODULE_TYPE, licensed |-> TRUE, latest |-> TRUE],
    [module_ident |-> 8, uuid |-> <<"x">>, version |-> <<"2">>,
     moduleid |-> <<"m", "1", "0", "0", "0", "1">>, legacy_version |-> <<"1", ".", "2">>,
     portal_type |-> MODULE_TYPE, licensed |-> TRUE, latest |-> TRUE],
    [module_ident |-> 9, uuid |-> <<"z">>, version |-> <<"1">>,
     moduleid |-> <<"m", "1", "0", "0", "0", "5">>, legacy_version |-> <<"1", ".", "1">>,
     portal_type |-> MODULE_TYPE, licensed |-> FALSE, latest |-> TRUE]
>>

\* The join of module_files and files: the files of every module.
module_files == <<
    [module_ident |-> 1, filename |-> <<"c", "o", "l", "l", "e", "c", "t", "i", "o", "n", ".", "x", "m", "l">>,
     md5 |-> <<"c", "1">>, mimetype |-> <<"t", "e", "x", "t", "/", "x", "m", "l">>],
    [module_ident |-> 2, filename |-> <<"c", "o", "l", "l", "e", "c", "t", "i", "o", "n", ".", "x", "m", "l">>,
     md5 |-> <<"c", "2">>, mimetype |-> <<"t", "e", "x", "t", "/", "x", "m", "l">>],
    [module_ident |-> 3, filename |-> <<"c", "o", "l", "l", "e", "c", "t", "i", "o", "n", ".", "x", "m", "l">>,
     md5 |-> <<"c", "3">>, mimetype |-> <<"t", "e", "x", "t", "/", "x", "m", "l">>],
    [module_ident |-> 4, filename |-> <<"i", "n", "d", "e", "x", ".", "c", "n", "x", "m", "l", ".", "h", "t", "m", "l">>,
     md5 |-> <<"i", "4">>, mimetype |-> <<"t", "e", "x", "t", "/", "h", "t", "m", "l">>],
    [module_ident |-> 4, filename |-> <<"f", "i", "g", "u", "r", "e", "1", ".", "p", "n", "g">>,
     md5 |-> <<"a", "b", "c", "1", "2", "3">>, mimetype |-> <<"i", "m", "a", "g", "e", "/", "p", "n", "g">>],
    [module_ident |-> 5, filename |-> <<"i", "n", "d", "e", "x", ".", "c", "n", "x", "m", "l", ".", "h", "t", "m", "l">>,
     md5 |-> <<"i", "5">>, mimetype |-> <<"t", "e", "x", "t", "/", "h", "t", "m", "l">>],
    [module_ident |-> 5, filename |-> <<"f", "i", "g", "2", ".", "p", "n", "g">>,
     md5 |-> <<"d", "e", "f", "4", "5", "6">>, mimetype |-> <<"i", "m", "a", "g", "e", "/", "p", "n", "g">>],
    [module_ident |-> 7, filename |-> <<"i", "n", "d", "e", "x", ".", "c", "n", "x", "m", "l", ".", "h", "t", "m", "l">>,
     md5 |-> <<"i", "7">>, mimetype |-> <<"t", "e", "x", "t", "/", "h", "t", "m", "l">>],
    [module_ident |-> 8, filename |-> <<"i", "n", "d", "e", "x", ".", "c", "n", "x", "m", "l", ".", "h", "t", "m", "l">>,
     md5 |-> <<"i", "8">>, mimetype |-> <<"t", "e", "x", "t", "/", "h", "t", "m", "l">>],
    [module_ident |-> 8, filename |-> <<"f", "i", "g", "u", "r", "e", "1", ".", "p", "n", "g">>,
     md5 |-> <<"a", "b", "c", "1", "2", "3">>, mimetype |-> <<"i", "m", "a", "g", "e", "/", "p", "n", "g">>]
>>

\* The name of the file that holds a module's markup (SQL_GET_CONTENT).
INDEX_CNXML_HTML == <<"i", "n", "d", "e", "x", ".", "c", "n", "x", "m", "l", ".", "h", "t", "m", "l">>

\* The id of a tree node that stands for a sub-collection (SQL_GET_TREE).
SUBCOL == <<"s", "u", "b", "c", "o", "l">>

\* "<id>@<version>", the ident hash of a tree node and of an export path.
IdentHash(id, version) == id \o <<"@">> \o version

\* A tree node without and with members, as json.loads gives them.
Item(id, version) == [id |-> IdentHash(id, version)]
Tree(id, contents) == [id |-> id, contents |-> contents]

\* The members a collection tree may list: modules, a module twice over in
\* another version, a collection, the collection itself, sub-collections
\* (SQL_GET_TREE gives every one of them a "contents", empty or not), a row
\* SQL_GET_MODULE does not return, a module without markup, a collection
\* listed with members of its own, and a collection that lists the root.
MemberPool == {
    Item(<<"x">>, <<"1">>),
    Item(<<"y">>, <<"1">>),
    Item(<<"A">>, <<"1">>),
    Item(<<"R">>, <<"1">>),
    Tree(SUBCOL, <<Item(<<"y">>, <<"1">>), Tree(SUBCOL, <<>>)>>),
    Item(<<"z">>, <<"1">>),
    Item(<<"w">>, <<"1">>),
    Tree(IdentHash(<<"A">>, <<"1">>), <<Item(<<"o">>, <<"2", ".", "1">>)>>),
    Item(<<"C">>, <<"1">>)
}

\* The elements a module's markup may hold: anchors and media elements with
\* the reference values the resolver tells apart.
ElementPool == {
    [tag |-> "a", parent |-> "p", attrs |-> [href |-> <<"#", "s", "e", "c", "1">>]],
    [tag |-> "a", parent |-> "p", attrs |-> [href |-> <<"h", "t", "t", "p", ":", "/", "/", "e", "x", "a", "m", "p", "l", "e", ".", "o", "r", "g", "/", "x">>]],
    [tag |-> "a", parent |-> "p", attrs |-> [href |-> <<"m", "a", "i", "l", "t", "o", ":", "a", "@", "b", ".", "c", "o", "m">>]],
    [tag |-> "a", parent |-> "p", attrs |-> [href |-> <<"j", "a", "v", "a", "s", "c", "r", "i", "p", "t", ":", "v", "o", "i", "d", "(", "0", ")">>]],
    [tag |-> "a", parent |-> "p", attrs |-> [href |-> <<"/", "h", "e", "l", "p", "/", "x">>]],
    [tag |-> "a", parent |-> "p", attrs |-> [href |-> <<"m", "1", "0", "0", "0", "3", "/", "l", "a", "t", "e", "s", "t", "#", "i", "n", "t", "r", "o">>]],
    [tag |-> "a", parent |-> "p", attrs |-> [href |-> <<"m", "1", "0", "0", "0", "1">>]],
    [tag |-> "a", parent |-> "p", attrs |-> [href |-> <<"m", "9", "9", "9", "9", "9">>]],
    [tag |-> "a", parent |-> "p", attrs |-> [href |-> <<"m", "1", "0", "0", "0", "1", "@", "9", ".", "9">>]],
    [tag |-> "a", parent |-> "p", attrs |-> [href |-> <<"m", "1", "0", "0", "0", "1", "1">>]],
    [tag |-> "a", parent |-> "p", attrs |-> [href |-> <<"m", "1", "0", "s", "t", "r", "o", "n", "g", "/", "l", "a", "t", "e", "s", "t", "#", "i", "n", "t", "r", "o">>]],
    [tag |-> "a", parent |-> "p", attrs |-> [href |-> <<"x">>]],
    [tag |-> "a", parent |-> "p", attrs |-> [href |-> <<"a", "\n", "b">>]],
    [tag |-> "a", parent |-> "p", attrs |-> [href |-> <<"f", "i", "g", "u", "r", "e", "1", ".", "p", "n", "g">>]],
    [tag |-> "a", parent |-> "p", attrs |-> [href |-> <<"n", "o", "f", "i", "l", "e", ".", "p", "n", "g">>]],
    [tag |-> "a", parent |-> "p", attrs |-> [name |-> <<"t", "o", "p">>]],
    [tag |-> "a", parent |-> "p", attrs |-> [href |-> <<>>]],
    [tag |-> "img", parent |-> "p", attrs |-> [src |-> <<"f", "i", "g", "u", "r", "e", "1", ".", "p", "n", "g">>]],
    [tag |-> "img", parent |-> "p", attrs |-> [src |-> <<"n", "o", "f", "i", "l", "e", ".", "p", "n", "g">>]],
    [tag |-> "img", parent |-> "p", attrs |-> [src |-> <<"m", "1", "0", "0", "0", "2", "/", "n", "o", "f", "i", "l", "e", ".", "p", "n", "g">>]],
    [tag |-> "img", parent |-> "p", attrs |-> [src |-> <<"a", "\n", "b">>]],
    [tag |-> "img", parent |-> "p", attrs |-> [src |-> <<"~">>]],
    [tag |-> "img", parent |-> "p", attrs |-> [src |-> <<"h", "t", "t", "p", "s", ":", "/", "/", "e", ".", "o", "r", "g", "/">>]],
    [tag |-> "img", parent |-> "p", attrs |-> [src |-> <<"m", "1", "0", "0", "0", "1">>]],
    [tag |-> "object", parent |-> "p", attrs |-> [data |-> <<"f", "t", "p", ":", "/", "/", "h", "/", "f">>]],
    [tag |-> "embed", parent |-> "object", attrs |-> [src |-> <<"m", "1", "0", "0", "0", "2", "/", "f", "i", "g", "2", ".", "p", "n", "g">>]],
    [tag |-> "embed", parent |-> "p", attrs |-> [src |-> <<"n", "o", "f", "i", "l", "e", ".", "p", "n", "g">>]],
    [tag |-> "span", parent |-> "p", attrs |-> ("data-src" :> <<"f", "i", "l", "e", ":", "/", "/", "/", "f">>)],
    [tag |-> "span", parent |-> "p", attrs |-> [class |-> <<"x">>]]
}

\* The largest number of members of the root collection's tree.
MaxMembers == 2

\* The largest number of elements of the markup of module x.
MaxElements == 2

\* The largest number of nested extract_content generators the model follows.
MaxDepth == 4

\* The sequences of at most n elements of S.
SeqsUpTo(S, n) == UNION {[1..k -> S] : k \in 0..n}

\* The markup of module x when the tree is what varies.
DefaultMarkup == <<
    [tag |-> "a", parent |-> "p", attrs |-> [href |-> <<"m", "1", "0", "0", "0", "3", "/", "l", "a", "t", "e", "s", "t", "#", "i", "n", "t", "r", "o">>]],
    [tag |-> "img", parent |-> "p", attrs |-> [src |-> <<"n", "o", "f", "i", "l", "e", ".", "p", "n", "g">>]]
>>

\* The inputs of a run: what the repository holds for the tree of collection
\* R and for the markup of module x, and the <ident-hash> of the command line.
Scenarios ==
    {[members |-> m, markup |-> DefaultMarkup, id |-> <<"R">>, version |-> <<"1">>] :
        m \in SeqsUpTo(MemberPool, MaxMembers)}
    \cup {[members |-> <<>>, markup |-> d, id |-> <<"x">>, version |-> <<"1">>] :
        d \in SeqsUpTo(ElementPool, MaxElements)}
    \cup {[members |-> <<Item(<<"x">>, <<"1">>)>>, markup |-> DefaultMarkup,
           id |-> r[1], version |-> r[2]] :
        r \in {<<<<"A">>, <<"1">>>>, <<<<"C">>, <<"1">>>>, <<<<"y">>, <<"1">>>>,
                <<<<"w">>, <<"1">>>>, <<<<"z">>, <<"1">>>>, <<<<"R">>, <<"2">>>>,
                <<<<"q">>, <<"1">>>>}}

(***************************************************************************)
(* The state of a run of main.                                             *)
(***************************************************************************)
VARIABLES
    generator_stop, \* whether the interpreter turns a StopIteration raised in
                    \* a generator into a RuntimeError (PEP 479, Python 3.7 on)
    db,             \* the repository's tree of R and markup of x, and the args
    pc,             \* where main is: "pull" (the for loop asks extract_content
                    \* for the next content), "render", "resolve", "write",
                    \* "resources", "done" (main returned 0), "crashed"
    exc,            \* the exception that ended main, "None" while there is none
    stack,          \* the nested extract_content generators, innermost last
    out,            \* the contents extract_content has yielded, in order
    requests,       \* how many times main has asked for the next content
    executed,       \* every SQL statement executed, in order
    document,       \* ReferenceResolver.document: the elements of the markup
    work,           \* the elements the resolver has still to visit
    messages,       \* the bad references the resolver has collected
    parsed,         \* every value passed to parse_reference, in order
    rendered,       \* what render_to_html returned to main for the content
    epub            \* the entries written to the archive, in order

vars == <<generator_stop, db, pc, exc, stack, out, requests, executed,
          document, work, messages, parsed, rendered, epub>>

walker == <<stack, out, requests>>
resolver == <<document, work, messages, parsed>>

(***************************************************************************)
(* The SQL statements, by what they select.                                *)
(***************************************************************************)

\* A variant of SQL_GET_MODULE that selects on the uuid alone, whatever the
\* version asked for.
SQL_GET_MODULE_any_version(id, version) ==
    LET Selected(m) == m.uuid = id /\ m.licensed
        rows == SelectSeq(modules, Selected)
    IN  [i \in 1..Len(rows) |->
            [id |-> rows[i].uuid, version |-> rows[i].version,
             ident |-> rows[i].module_ident, type |-> rows[i].portal_type]]

\* SQL_GET_MODULE: the rows of modules with the uuid and version that join a
\* licence, each as the mapping the program reads (id, version, ident, type).
SQL_GET_MODULE(id, version) ==
    LET Selected(m) == m.uuid = id /\ m.version = version /\ m.licensed
        rows == SelectSeq(modules, Selected)
    IN  [i \in 1..Len(rows) |->
            [id |-> rows[i].uuid, version |-> rows[i].version,
             ident |-> rows[i].module_ident, type |-> rows[i].portal_type]]

\* SQL_GET_TREE: the tree of a collection, its root being the collection.
SQL_GET_TREE(module) ==
    LET root == IdentHash(module.id, module.version)
    IN  CASE module.id = <<"R">> -> Tree(root, db.members)
          [] module.id = <<"A">> ->
                Tree(root, <<Item(<<"y">>, <<"1">>),
                             Tree(SUBCOL, <<Item(<<"A">>, <<"1">>),
                                            Item(<<"x">>, <<"1">>)>>)>>)
          [] OTHER -> Tree(root, <<Item(<<"R">>, <<"1">>)>>)

\* SQL_GET_CONTENT: the index.cnxml.html files of a module, as the elements
\* of their markup.
SQL_GET_CONTENT(module_ident) ==
    LET Selected(f) == f.module_ident = module_ident /\ f.filename = INDEX_CNXML_HTML
        rows == SelectSeq(module_files, Selected)
    IN  [i \in 1..Len(rows) |->
            CASE module_ident = 4 -> db.markup
              [] module_ident = 5 ->
                    <<[tag |-> "a", parent |-> "p",
                       attrs |-> [href |-> <<"m", "1", "0", "0", "0", "1">>]]>>
              [] OTHER -> <<[tag |-> "a", parent |-> "p",
                             attrs |-> [href |-> <<"#", "s", "e", "c", "1">>]]>>]

\* The names SQL_GET_FILES compares a filename with.
GET_FILES_NAMES == {
    <<"c", "o", "l", "l", "e", "c", "t", "i", "o", "n", ".", "x", "m", "l">>,
    <<"i", "n", "d", "e", "x", ".", "c", "n", "x", "m", "l">>,
    INDEX_CNXML_HTML
}

\* SQL_GET_FILES: the files of a module whose name differs from any one of
\* the three names (filename != any(ARRAY[...])).
SQL_GET_FILES(module_ident) ==
    LET Selected(f) ==
            /\ f.module_ident = module_ident
            /\ \E name \in GET_FILES_NAMES : f.filename # name
    IN  SelectSeq(module_files, Selected)

\* One executed statement, for the log.
Statement(sql, args) == [sql |-> sql, args |-> args]

(***************************************************************************)
(* The walk over the tree.                                                 *)
(***************************************************************************)

\* What ends a generator whose body ends with "raise StopIteration()": the
\* generator just ends, or the interpreter raises RuntimeError in its place.
GeneratorEnd(stop) == IF stop THEN "RuntimeError" ELSE "StopIteration"

\* A variant of flatten_tree_to_ident_hashs without the test of line 116: it
\* yields the id of a sub-collection as that of any other tree.
RECURSIVE flatten_with_placeholders(_, _)
flatten_with_placeholders(item_or_tree, stop) ==
    IF "contents" \in DOMAIN item_or_tree
    THEN LET below == [i \in 1..Len(item_or_tree.contents) |->
                          flatten_with_placeholders(item_or_tree.contents[i], stop).ids]
         IN  [ids |-> <<item_or_tree.id>> \o ConcatAll(below),
              raises |-> GeneratorEnd(stop) = "RuntimeError"]
    ELSE [ids |-> <<item_or_tree.id>>,
          raises |-> GeneratorEnd(stop) = "RuntimeError"]

\* A variant of flatten_tree_to_ident_hashs that yields the id of a tree after
\* the ids of its contents: the order C1 rules out.
RECURSIVE flatten_post_order(_, _)
flatten_post_order(item_or_tree, stop) ==
    IF "contents" \in DOMAIN item_or_tree
    THEN LET own == IF item_or_tree.id # SUBCOL THEN <<item_or_tree.id>> ELSE <<>>
             below == [i \in 1..Len(item_or_tree.contents) |->
                          flatten_post_order(item_or_tree.contents[i], stop).ids]
         IN  [ids |-> ConcatAll(below) \o own,
              raises |-> GeneratorEnd(stop) = "RuntimeError"]
    ELSE [ids |-> <<item_or_tree.id>>,
          raises |-> GeneratorEnd(stop) = "RuntimeError"]

\* flatten_tree_to_ident_hashs(item_or_tree), run to its end: the ids it
\* yields, and whether a RuntimeError follows them.
RECURSIVE flatten_tree_to_ident_hashs(_, _)
RECURSIVE FlattenContents(_, _)
flatten_tree_to_ident_hashs(item_or_tree, stop) ==
    IF "contents" \in DOMAIN item_or_tree
    THEN LET own == IF item_or_tree.id # SUBCOL THEN <<item_or_tree.id>> ELSE <<>>
             rest == FlattenContents(item_or_tree.contents, stop)
         IN  [ids |-> own \o rest.ids,
              raises |-> rest.raises \/ GeneratorEnd(stop) = "RuntimeError"]
    ELSE [ids |-> <<item_or_tree.id>>,
          raises |-> GeneratorEnd(stop) = "RuntimeError"]

\* The loop "for i in tree['contents']: yield from ...", which an exception
\* of a member's generator ends.
FlattenContents(contents, stop) ==
    IF contents = <<>> THEN [ids |-> <<>>, raises |-> FALSE]
    ELSE LET first == flatten_tree_to_ident_hashs(Head(contents), stop)
             rest == FlattenContents(Tail(contents), stop)
         IN  IF first.raises THEN first
             ELSE [ids |-> first.ids \o rest.ids, raises |-> rest.raises]

\* A content before it is fetched.
NoModule == [id |-> None, version |-> None, ident |-> 0, type |-> "None"]

\* A generator extract_content(id, version, db_cursor): its arguments, the
\* module it fetched, where it stands ("start": not yet run; "iter": in the
\* loop over the tree; "end": after the yield of a module), and what
\* flatten_tree_to_ident_hashs has still to give it.
Frame(id, version) ==
    [id |-> id, version |-> version, module |-> NoModule, at |-> "start",
     ids |-> <<>>, raises |-> FALSE]

Top == stack[Len(stack)]

\* A variant of Resumed under which the generator runs on whether or not main
\* has asked for the next content.
ResumedEager == stack # <<>>

\* The generator runs only while main waits for the next content.
Resumed == pc = "pull" /\ stack # <<>>

Raise(name) ==
    /\ pc' = "crashed"
    /\ exc' = name

\* Lines 129-158 for a generator that has not run yet: fetch the module, and
\* its tree or its markup, and yield it; ValueError when a row is missing.
FetchModule ==
    /\ Resumed
    /\ Top.at = "start"
    /\ LET rows == SQL_GET_MODULE(Top.id, Top.version)
           module == rows[1]
           get == Statement("SQL_GET_MODULE", <<Top.id, Top.version>>)
           isTree == module.type = COLLECTION_TYPE
           second == IF isTree THEN Statement("SQL_GET_TREE", <<module.id, module.version>>)
                     ELSE Statement("SQL_GET_CONTENT", <<module.ident>>)
           flat == flatten_tree_to_ident_hashs(SQL_GET_TREE(module), generator_stop)
       IN  IF rows = <<>>
           THEN /\ Raise("ValueError")
                /\ executed' = Append(executed, get)
                /\ UNCHANGED <<stack, out>>
           ELSE IF ~isTree /\ SQL_GET_CONTENT(module.ident) = <<>>
           THEN /\ Raise("ValueError")
                /\ executed' = executed \o <<get, second>>
                /\ UNCHANGED <<stack, out>>
           ELSE /\ executed' = executed \o <<get, second>>
                /\ out' = Append(out, module)
                /\ stack' = [stack EXCEPT ![Len(stack)] =
                       [@ EXCEPT !.module = module,
                                 !.at = IF isTree THEN "iter" ELSE "end",
                                 !.ids = IF isTree THEN flat.ids ELSE <<>>,
                                 !.raises = IF isTree THEN flat.raises ELSE FALSE]]
                /\ pc' = "render"
                /\ UNCHANGED exc
    /\ UNCHANGED <<generator_stop, db, requests, resolver, rendered, epub>>

\* Line 143: the two parts of the next ident hash.
NextIdent == Split(Head(Top.ids), "@")

\* A variant of the test of lines 144-145 that never takes an ident hash for
\* the collection's own.
IsSelfNever(module, id, version) == FALSE

\* Lines 144-145: the ident hash is the collection's own.
IsSelf(module, id, version) == id = module.id /\ version = module.version

\* Lines 142-145: the next ident hash is the collection's own, and is skipped.
SkipSelf ==
    /\ Resumed
    /\ Top.at = "iter"
    /\ Top.ids # <<>>
    /\ Len(NextIdent) = 2
    /\ IsSelf(Top.module, NextIdent[1], NextIdent[2])
    /\ stack' = [stack EXCEPT ![Len(stack)].ids = Tail(@)]
    /\ UNCHANGED <<generator_stop, db, pc, exc, out, requests, executed,
                   resolver, rendered, epub>>

\* Lines 142-146: the next ident hash is another content's, and a generator
\* for it is entered; ValueError when the hash has not two parts.
Recurse ==
    /\ Resumed
    /\ Top.at = "iter"
    /\ Top.ids # <<>>
    /\ IF Len(NextIdent) # 2
       THEN /\ Raise("ValueError")
            /\ UNCHANGED stack
       ELSE /\ ~IsSelf(Top.module, NextIdent[1], NextIdent[2])
            /\ Len(stack) < MaxDepth
            /\ stack' = [stack EXCEPT ![Len(stack)].ids = Tail(@)]
                            \o <<Frame(NextIdent[1], NextIdent[2])>>
            /\ UNCHANGED <<pc, exc>>
    /\ UNCHANGED <<generator_stop, db, out, requests, executed,
                   resolver, rendered, epub>>

\* Lines 123 and 159: the tree gives no more ident hashes, or the module has
\* been yielded, and the generator's body ends with "raise StopIteration()".
\* The generator that ends last ends the for loop of main, which returns 0.
Finish ==
    /\ Resumed
    /\ \/ Top.at = "end"
       \/ Top.at = "iter" /\ Top.ids = <<>>
    /\ IF Top.raises \/ GeneratorEnd(generator_stop) = "RuntimeError"
       THEN /\ Raise("RuntimeError")
            /\ UNCHANGED stack
       ELSE /\ stack' = SubSeq(stack, 1, Len(stack) - 1)
            /\ pc' = IF Len(stack) = 1 THEN "done" ELSE pc
            /\ UNCHANGED exc
    /\ UNCHANGED <<generator_stop, db, out, requests, executed,
                   resolver, rendered, epub>>

(***************************************************************************)
(* The reference resolver.                                                 *)
(***************************************************************************)

\* A variant of _should_ignore_reference without the test for 'mailto'.
should_ignore_reference_no_mailto(ref) ==
    LET r == Strip(ref)
    IN  \/ r = <<>>
        \/ StartsWith(r, <<"#">>)
        \/ StartsWith(r, <<"h", "t", "t", "p">>)
        \/ StartsWith(r, <<"f", "i", "l", "e">>)
        \/ StartsWith(r, <<"/", "h", "e", "l", "p">>)
        \/ StartsWith(r, <<"f", "t", "p">>)
        \/ StartsWith(r, <<"j", "a", "v", "a", "s", "c", "r", "i", "p", "t", ":">>)

\* ReferenceResolver._should_ignore_reference(ref)
should_ignore_reference(ref) ==
    LET r == Strip(ref)
    IN  \/ r = <<>>
        \/ StartsWith(r, <<"#">>)
        \/ StartsWith(r, <<"h", "t", "t", "p">>)
        \/ StartsWith(r, <<"m", "a", "i", "l", "t", "o">>)
        \/ StartsWith(r, <<"f", "i", "l", "e">>)
        \/ StartsWith(r, <<"/", "h", "e", "l", "p">>)
        \/ StartsWith(r, <<"f", "t", "p">>)
        \/ StartsWith(r, <<"j", "a", "v", "a", "s", "c", "r", "i", "p", "t", ":">>)

\* The two SQL_MODULE_UUID_N_VERSION statements.
SQL_MODULE_UUID_N_VERSION_BY_ID_AND_VERSION_STATEMENT(moduleid, version) ==
    LET Selected(m) == m.moduleid = moduleid /\ m.legacy_version = version
    IN  SelectSeq(modules, Selected)

SQL_MODULE_UUID_N_VERSION_BY_ID_STATEMENT(moduleid) ==
    LET Selected(m) == m.moduleid = moduleid /\ m.latest
    IN  SelectSeq(modules, Selected)

\* A variant of get_uuid_n_version that gives the latest version of the
\* module when the version asked for has no row.
get_uuid_n_version_or_latest(module_id, version) ==
    LET exact == IF Truthy(version)
                 THEN SQL_MODULE_UUID_N_VERSION_BY_ID_AND_VERSION_STATEMENT(module_id, version)
                 ELSE <<>>
        rows == IF exact # <<>> THEN exact
                ELSE SQL_MODULE_UUID_N_VERSION_BY_ID_STATEMENT(module_id)
    IN  IF rows = <<>> THEN <<None, None>>
        ELSE <<rows[1].uuid, rows[1].version>>

\* ReferenceResolver.get_uuid_n_version(module_id, version): the pair
\* (uuid, version), (None, None) when there is no row.
get_uuid_n_version(module_id, version) ==
    LET rows == IF Truthy(version)
                THEN SQL_MODULE_UUID_N_VERSION_BY_ID_AND_VERSION_STATEMENT(module_id, version)
                ELSE SQL_MODULE_UUID_N_VERSION_BY_ID_STATEMENT(module_id)
    IN  IF rows = <<>> THEN <<None, None>>
        ELSE <<rows[1].uuid, rows[1].version>>

\* The statement get_uuid_n_version executes.
UuidStatement(module_id, version) ==
    IF Truthy(version)
    THEN Statement("SQL_MODULE_UUID_N_VERSION_BY_ID_AND_VERSION_STATEMENT",
                   <<module_id, version>>)
    ELSE Statement("SQL_MODULE_UUID_N_VERSION_BY_ID_STATEMENT", <<module_id>>)

\* SQL_RESOURCE_INFO_STATEMENT: the rows of the file that the module holds
\* under the filename (the md5 stands for the fileid).
SQL_RESOURCE_INFO_STATEMENT(module_ident, filename) ==
    LET Named(f) == f.module_ident = module_ident /\ f.filename = filename
        named == SelectSeq(module_files, Named)
        SameFile(f) == named # <<>> /\ f.md5 = named[1].md5
        rows == SelectSeq(module_files, SameFile)
    IN  [i \in 1..Len(rows) |->
            [hash |-> rows[i].md5, filename |-> rows[i].filename,
             mediatype |-> rows[i].mimetype]]

\* A bad reference: the exception's class, document_ident and reference.
BadReference(kind, document_ident, reference) ==
    [kind |-> kind, document_ident |-> document_ident, reference |-> reference]

NoInfo == [hash |-> None, filename |-> None, mediatype |-> None]

\* Whether the name basestring is bound when line 467 is evaluated: it is no
\* builtin of the Python 3 the program is written in, and nothing defines it.
basestring_defined == FALSE

\* ReferenceResolver.get_resource_info(filename, document_id, version) of the
\* resolver of document self_ident: what it raises ("None" when it returns),
\* the info it returns, the bad reference it raises, the statements it ran.
get_resource_info(self_ident, filename, document_id, version) ==
    LET owners == IF Truthy(version)
                  THEN SQL_MODULE_UUID_N_VERSION_BY_ID_AND_VERSION_STATEMENT(document_id, version)
                  ELSE SQL_MODULE_UUID_N_VERSION_BY_ID_STATEMENT(document_id)
        ownerStatement ==
            IF Truthy(version)
            THEN Statement("SQL_DOCUMENT_IDENT_BY_ID_N_VERSION", <<document_id, version>>)
            ELSE Statement("SQL_LATEST_DOCUMENT_IDENT_BY_ID", <<document_id>>)
        document_ident == IF Truthy(document_id) THEN owners[1].module_ident
                          ELSE self_ident
        infoStatement == Statement("SQL_RESOURCE_INFO_STATEMENT", <<filename>>)
        rows == SQL_RESOURCE_INFO_STATEMENT(document_ident, filename)
    IN  IF Truthy(document_id) /\ owners = <<>>
        THEN [raised |-> "ReferenceNotFound", info |-> NoInfo,
              error |-> BadReference("ReferenceNotFound", self_ident, filename),
              statements |-> <<ownerStatement>>]
        ELSE LET statements == (IF Truthy(document_id) THEN <<ownerStatement>> ELSE <<>>)
                                   \o <<infoStatement>>
             IN  IF rows = <<>>
                 THEN [raised |-> "ReferenceNotFound", info |-> NoInfo,
                       error |-> BadReference("ReferenceNotFound", document_ident, filename),
                       statements |-> statements]
                 ELSE IF ~basestring_defined
                 THEN [raised |-> "NameError", info |-> NoInfo,
                       error |-> BadReference("NameError", document_ident, filename),
                       statements |-> statements]
                 ELSE [raised |-> "None", info |-> rows[1],
                       error |-> BadReference("None", document_ident, filename),
                       statements |-> statements]

\* elem.get(attr): None when the element has no such attribute.
GetAttr(elem, attr) ==
    IF attr \in DOMAIN elem.attrs THEN elem.attrs[attr] ELSE None

\* elem.set(attr, value)
SetAttr(elem, attr, value) ==
    [elem EXCEPT !.attrs =
        [a \in DOMAIN elem.attrs \cup {attr} |->
            IF a = attr THEN value ELSE elem.attrs[a]]]

\* The three attributes set for a resolved resource.
SetResource(elem, attr, info) ==
    SetAttr(SetAttr(SetAttr(elem, attr,
                <<".", ".", "/", "r", "e", "s", "o", "u", "r", "c", "e", "s", "/">>
                    \o info.hash),
            "data-filename", info.filename),
        "data-mediatype", info.mediatype)

\* What the visit of one element gives: the element, the bad references
\* appended, the exception that ends the resolver ("None" when none does),
\* the values passed to parse_reference and the statements executed.
Visit(elem, bad, raised, values, statements) ==
    [elem |-> elem, bad |-> bad, raised |-> raised, parsed |-> values,
     statements |-> statements]

\* Lines 519-526 and 561-569: the outcome of get_resource_info for the value
\* ref of the attribute attr.
ResourceVisit(elem, attr, ref, r) ==
    IF r.raised = "ReferenceNotFound"
    THEN Visit(elem, <<r.error>>, "None", <<ref>>, r.statements)
    ELSE IF r.raised = "NameError"
    THEN Visit(elem, <<>>, "NameError", <<ref>>, r.statements)
    ELSE Visit(SetResource(elem, attr, r.info), <<>>, "None", <<ref>>, r.statements)

\* A variant of lines 511-526 that passes over a payload it cannot unpack
\* without recording it.
MediaParsedLenient(self_ident, elem, attr, filename, p) ==
    IF p.raised
    THEN Visit(elem, <<BadReference("InvalidReference", self_ident, filename)>>,
               "None", <<filename>>, <<>>)
    ELSE IF Len(p.value) # 3
    THEN Visit(elem, <<>>, "None", <<filename>>, <<>>)
    ELSE ResourceVisit(elem, attr, filename,
             get_resource_info(self_ident, p.value[1], p.value[2], p.value[3]))

\* Lines 511-526: the value has been parsed to p; its payload is unpacked as
\* (filename, module_id, version) whatever its type is.
MediaParsed(self_ident, elem, attr, filename, p) ==
    IF p.raised \/ Len(p.value) # 3
    THEN Visit(elem, <<BadReference("InvalidReference", self_ident, filename)>>,
               "None", <<filename>>, <<>>)
    ELSE ResourceVisit(elem, attr, filename,
             get_resource_info(self_ident, p.value[1], p.value[2], p.value[3]))

MediaValue(self_ident, elem, attr, filename) ==
    IF ~Truthy(filename) \/ should_ignore_reference(filename)
    THEN Visit(elem, <<>>, "None", <<>>, <<>>)
    ELSE MediaParsed(self_ident, elem, attr, filename, parse_reference(filename))

\* Lines 507-526: one turn of the loop of fix_media_references.
fix_media_reference(self_ident, elem, attr) ==
    MediaValue(self_ident, elem, attr, GetAttr(elem, attr))

\* Line 557: '{}@{}.html{}'.format(uuid, version, url_frag)
ModulePath(uuid, version, url_frag) ==
    uuid \o <<"@">> \o version \o <<".", "h", "t", "m", "l">> \o url_frag

\* Lines 547-559: a module reference with the (uuid, version) found for it.
AnchorModule(self_ident, anchor, ref, url_frag, statement, found) ==
    IF found[1] = None
    THEN Visit(anchor, <<BadReference("ReferenceNotFound", self_ident, ref)>>,
               "None", <<ref>>, <<statement>>)
    ELSE Visit(SetAttr(anchor, "href",
                   ModulePath(found[1], found[2],
                              IF Truthy(url_frag) THEN url_frag ELSE <<>>)),
               <<>>, "None", <<ref>>, <<statement>>)

\* Lines 539-572: the href has been parsed to p.
AnchorParsed(self_ident, anchor, ref, p) ==
    IF p.raised
    THEN Visit(anchor, <<BadReference("InvalidReference", self_ident, ref)>>,
               "None", <<ref>>, <<>>)
    ELSE IF p.type = MODULE_REFERENCE
    THEN AnchorModule(self_ident, anchor, ref, p.value[3],
             UuidStatement(p.value[1], p.value[2]),
             get_uuid_n_version(p.value[1], p.value[2]))
    ELSE IF p.type = RESOURCE_REFERENCE
    THEN ResourceVisit(anchor, "href", ref,
             get_resource_info(self_ident, p.value[1], p.value[2], p.value[3]))
    ELSE Visit(anchor, <<BadReference("InvalidReference", self_ident, ref)>>,
               "None", <<ref>>, <<>>)

AnchorValue(self_ident, anchor, ref) ==
    IF ~Truthy(ref) \/ should_ignore_reference(ref)
    THEN Visit(anchor, <<>>, "None", <<>>, <<>>)
    ELSE AnchorParsed(self_ident, anchor, ref, parse_reference(ref))

\* Lines 535-572: one turn of the loop of fix_anchor_references.
fix_anchor_reference(self_ident, anchor) ==
    AnchorValue(self_ident, anchor, GetAttr(anchor, "href"))

\* media_xpath: the element, its parent when the path names it, the
\* attribute that holds the reference.
media_xpath == <<
    [tag |-> "img", parent |-> "", attr |-> "src"],
    [tag |-> "audio", parent |-> "", attr |-> "src"],
    [tag |-> "video", parent |-> "", attr |-> "src"],
    [tag |-> "object", parent |-> "", attr |-> "data"],
    [tag |-> "embed", parent |-> "object", attr |-> "src"],
    [tag |-> "source", parent |-> "", attr |-> "src"],
    [tag |-> "span", parent |-> "", attr |-> "data-src"]
>>

\* apply_xpath: the elements of the markup a path selects, in document order,
\* each with the attribute to read.
RECURSIVE Select(_, _, _, _)
Select(elems, i, xp, surface) ==
    IF i > Len(elems) THEN <<>>
    ELSE (IF elems[i].tag = xp.tag /\ (xp.parent = "" \/ elems[i].parent = xp.parent)
          THEN <<[index |-> i, attr |-> xp.attr, surface |-> surface]>>
          ELSE <<>>) \o Select(elems, i + 1, xp, surface)

\* The orders in which "for xpath, attr in media_xpath.items()" may take the
\* paths that select something: the order of the literal where the language
\* keeps the insertion order of a dict (the interpreters of PEP 479), any
\* order where it does not.
XpathOrders(elems, stop) ==
    LET hits == {k \in 1..Len(media_xpath) : Select(elems, 1, media_xpath[k], "media") # <<>>}
        n == Cardinality(hits)
        orders == {o \in [1..n -> hits] : \A i, j \in 1..n : i # j => o[i] # o[j]}
    IN  IF stop
        THEN {o \in orders : \A i, j \in 1..n : i < j => o[i] < o[j]}
        ELSE orders

\* The visits of fix_media_references and then of fix_anchor_references.
Visits(elems, order) ==
    ConcatAll([k \in 1..Len(order) |-> Select(elems, 1, media_xpath[order[k]], "media")])
        \o Select(elems, 1, [tag |-> "a", parent |-> "", attr |-> "href"], "anchor")

\* html_listify: the anchors of the table of contents of a tree.
RECURSIVE html_listify(_)
html_listify(tree) ==
    IF tree = <<>> THEN <<>>
    ELSE LET node == Head(tree)
             a_elm == IF node.id # SUBCOL
                      THEN [tag |-> "a", parent |-> "li",
                            attrs |-> [href |-> node.id \o <<".", "h", "t", "m", "l">>]]
                      ELSE [tag |-> "a", parent |-> "li", attrs |-> <<>>]
         IN  <<a_elm>>
             \o (IF "contents" \in DOMAIN node THEN html_listify(node.contents) ELSE <<>>)
             \o html_listify(Tail(tree))

\* tree_to_html(tree)
tree_to_html(tree) == html_listify(<<tree>>)

(***************************************************************************)
(* main: the loop over the contents.                                       *)
(***************************************************************************)

\* The content the for loop of main holds.
content == out[Len(out)]

\* render_to_html up to line 235: a collection is rendered to its table of
\* contents and returned; for a module the resolver is built on its markup.
RenderToHtml ==
    /\ pc = "render"
    /\ IF content.type = COLLECTION_TYPE
       THEN /\ rendered' = [html |-> tree_to_html(SQL_GET_TREE(content))]
            /\ pc' = "write"
            /\ UNCHANGED resolver
       ELSE /\ document' = SQL_GET_CONTENT(content.ident)[1]
            /\ \E order \in XpathOrders(document', generator_stop) :
                   work' = Visits(document', order)
            /\ messages' = <<>>
            /\ pc' = "resolve"
            /\ UNCHANGED <<parsed, rendered>>
    /\ UNCHANGED <<generator_stop, db, exc, walker, executed, epub>>

\* The outcome of a visit, applied to the resolver.
Apply(visit) ==
    /\ executed' = executed \o visit.statements
    /\ parsed' = parsed \o visit.parsed
    /\ IF visit.raised = "None"
       THEN /\ document' = [document EXCEPT ![Head(work).index] = visit.elem]
            /\ messages' = messages \o visit.bad
            /\ work' = Tail(work)
            /\ UNCHANGED <<pc, exc>>
       ELSE /\ Raise(visit.raised)
            /\ UNCHANGED <<document, messages, work>>
    /\ UNCHANGED <<generator_stop, db, walker, rendered, epub>>

\* One turn of the loop of fix_media_references.
FixMediaReference ==
    /\ pc = "resolve"
    /\ work # <<>>
    /\ Head(work).surface = "media"
    /\ Apply(fix_media_reference(content.ident, document[Head(work).index],
                                 Head(work).attr))

\* One turn of the loop of fix_anchor_references.
FixAnchorReference ==
    /\ pc = "resolve"
    /\ work # <<>>
    /\ Head(work).surface = "anchor"
    /\ Apply(fix_anchor_reference(content.ident, document[Head(work).index]))

\* What render_to_html returns for the html and the bad references the
\* resolver returned (lines 233-236): the html alone.
render_to_html_result(html, bad_refs) == [html |-> html]

\* Lines 404 and 233-236: the resolver returns, and render_to_html does.
ResolverReturn ==
    /\ pc = "resolve"
    /\ work = <<>>
    /\ rendered' = render_to_html_result(document, messages)
    /\ pc' = "write"
    /\ UNCHANGED <<generator_stop, db, exc, walker, executed, resolver, epub>>

\* Lines 262-264: 'contents/<id>@<version>.html'
ContentPath(module) ==
    <<"c", "o", "n", "t", "e", "n", "t", "s", "/">>
        \o IdentHash(module.id, module.version) \o <<".", "h", "t", "m", "l">>

\* Line 273: 'resources/<hash>'
ResourcePath(hash) ==
    <<"r", "e", "s", "o", "u", "r", "c", "e", "s", "/">> \o hash

\* Line 265: the rendered content is written to the archive.
WriteContent ==
    /\ pc = "write"
    /\ epub' = Append(epub, [name |-> ContentPath(content), html |-> rendered.html])
    /\ pc' = "resources"
    /\ UNCHANGED <<generator_stop, db, exc, walker, executed, resolver, rendered>>

\* Lines 271-276 with extract_resources: the files of the content are written
\* to the archive; the generator's body ends with "raise StopIteration()".
ExtractResources ==
    /\ pc = "resources"
    /\ LET files == SQL_GET_FILES(content.ident)
       IN  /\ executed' = Append(executed, Statement("SQL_GET_FILES", <<content.ident>>))
           /\ epub' = epub \o [i \in 1..Len(files) |->
                                   [name |-> ResourcePath(files[i].md5),
                                    file |-> files[i].md5]]
    /\ IF GeneratorEnd(generator_stop) = "RuntimeError"
       THEN /\ Raise("RuntimeError")
            /\ UNCHANGED requests
       ELSE /\ pc' = "pull"
            /\ requests' = requests + 1
            /\ UNCHANGED exc
    /\ UNCHANGED <<generator_stop, db, stack, out, resolver, rendered>>

Init ==
    /\ generator_stop \in BOOLEAN
    /\ db \in Scenarios
    /\ pc = "pull"
    /\ exc = "None"
    /\ stack = <<Frame(db.id, db.version)>>
    /\ out = <<>>
    /\ requests = 1
    /\ executed = <<>>
    /\ document = <<>>
    /\ work = <<>>
    /\ messages = <<>>
    /\ parsed = <<>>
    /\ rendered = [html |-> <<>>]
    /\ epub = <<>>

Next ==
    \/ FetchModule
    \/ SkipSelf
    \/ Recurse
    \/ Finish
    \/ RenderToHtml
    \/ FixMediaReference
    \/ FixAnchorReference
    \/ ResolverReturn
    \/ WriteContent
    \/ ExtractResources

Spec == Init /\ [][Next]_vars

(***************************************************************************)
(* The order of the contents.                                              *)
(***************************************************************************)

\* s is the beginning of t.
IsPrefix(s, t) == Len(s) <= Len(t) /\ SubSeq(t, 1, Len(s)) = s

\* The mark of the place where an expansion cannot go on: a content the
\* repository does not give, or one nested deeper than MaxDepth.
Halt == [id |-> None, version |-> None, ident |-> 0, type |-> "Halt"]

\* The depth-first pre-order expansion, by structural recursion: a content is
\* itself followed by the expansion of its tree; a tree node is the expansion
\* of the content it names (nothing for a sub-collection and for the entry of
\* the collection itself) followed by the expansions of its members, in order.
RECURSIVE Unfold(_, _, _)
RECURSIVE PreOrder(_, _, _)
Unfold(id, version, depth) ==
    LET rows == SQL_GET_MODULE(id, version)
    IN  IF depth = 0 \/ rows = <<>> THEN <<Halt>>
        ELSE IF rows[1].type = COLLECTION_TYPE
        THEN <<rows[1]>> \o PreOrder(SQL_GET_TREE(rows[1]), rows[1], depth)
        ELSE IF SQL_GET_CONTENT(rows[1].ident) = <<>> THEN <<Halt>>
        ELSE <<rows[1]>>

PreOrder(node, owner, depth) ==
    LET parts == Split(node.id, "@")
        own == IF node.id = SUBCOL \/ node.id = IdentHash(owner.id, owner.version)
               THEN <<>>
               ELSE Unfold(parts[1], parts[2], depth - 1)
        below == IF "contents" \in DOMAIN node
                 THEN ConcatAll([i \in 1..Len(node.contents) |->
                                    PreOrder(node.contents[i], owner, depth)])
                 ELSE <<>>
    IN  own \o below

\* The expansion of the content named on the command line, and the part of
\* it before the first place where it cannot go on.
Expansion == Unfold(db.id, db.version, MaxDepth)

IsHalt(unit) == unit = Halt

BeforeHalt(units) ==
    LET at == FirstIndex(units, IsHalt)
    IN  IF at = 0 THEN units ELSE SubSeq(units, 1, at - 1)

\* C1: the sequence extract_content produces is the depth-first pre-order
\* expansion of the tree: at every moment the contents yielded so far are the
\* beginning of that expansion (a composite before its descendants, the whole
\* expansion of a member before that of the next member, composite members
\* included), and when main returns they are the whole of it.
C1_PreOrderExpansion ==
    /\ IsPrefix(out, BeforeHalt(Expansion))
    /\ pc = "done" => out = Expansion

\* C1's case: a finished run whose tree holds a composite member that has
\* members of its own and is followed by further contents.
C1_Witness ==
    /\ pc = "done"
    /\ Len(out) >= 5
    /\ \E k \in 2..(Len(out) - 2) :
           /\ out[k].type = COLLECTION_TYPE
           /\ out[k + 1].type = MODULE_TYPE
    /\ \E i \in DOMAIN db.members : "contents" \in DOMAIN db.members[i]

(***************************************************************************)
(* The collection's own entry.                                             *)
(***************************************************************************)

\* The generator on top stands before an entry of its tree that is the
\* ident hash of its own collection.
AtOwnEntry ==
    /\ Resumed
    /\ Top.at = "iter"
    /\ Top.ids # <<>>
    /\ Head(Top.ids) = IdentHash(Top.module.id, Top.module.version)

\* How many of the contents yielded are the content named on the command line.
RootUnits == Cardinality({k \in DOMAIN out : out[k].id = db.id /\ out[k].version = db.version})

\* No member of the root's tree leads back to the root but the root's own entry.
OnlyOwnEntry ==
    LET units == Expansion
    IN  \A k \in DOMAIN units :
            k > 1 => ~(units[k].id = db.id /\ units[k].version = db.version)

RootExists ==
    \E i \in DOMAIN modules :
        /\ modules[i].uuid = db.id
        /\ modules[i].version = db.version
        /\ modules[i].licensed

\* C3: when the repository does not hold the root (id, version),
\* extract_content raises its not-found error (ValueError) on the first
\* request, and nothing has been yielded when it is raised: the run is
\* either before that request or ended by the error, with no content.
C3_RootNotFound ==
    ~RootExists =>
        /\ out = <<>>
        /\ epub = <<>>
        /\ \/ pc = "pull" /\ requests = 1 /\ executed = <<>>
           \/ pc = "crashed" /\ exc = "ValueError" /\ requests = 1

\* C3's case: a run for a root the repository does not hold, after the error.
C3_Witness ==
    /\ ~RootExists
    /\ pc = "crashed"
    /\ exc = "ValueError"
    /\ out = <<>>
    /\ Len(executed) = 1

(***************************************************************************)
(* The end of a run.                                                       *)
(***************************************************************************)

\* Every content and tree reachable from the root is given by the
\* repository, within MaxDepth generators.
TreeFetchable ==
    LET units == Expansion
    IN  \A k \in DOMAIN units : units[k] # Halt

\* C4 (as the specification states it): when every document and member tree
\* reachable from the root is fetchable, the run comes to its normal end, so
\* no exception ends main, whatever becomes of the references in the
\* documents. Stated for the interpreters on which "raise StopIteration()"
\* just ends a generator.
C4_CompletesWhenFetchable ==
    (~generator_stop /\ TreeFetchable) => pc # "crashed"

(***************************************************************************)
(* Laziness.                                                               *)
(***************************************************************************)

IsGetModule(statement) == statement.sql = "SQL_GET_MODULE"

IsGetTreeOrContent(statement) ==
    statement.sql \in {"SQL_GET_TREE", "SQL_GET_CONTENT"}

\* The executions of SQL_GET_MODULE, in order.
Fetches == SelectSeq(executed, IsGetModule)

\* C5: the sequence is lazy: at every point of a run, the run ended by an
\* exception included, no more contents have been fetched or yielded than
\* main has asked for, the k-th fetch is that of the k-th content yielded,
\* and the resolver works on the markup of the content last asked for.
C5_Lazy ==
    /\ Len(out) <= requests
    /\ Len(Fetches) <= requests
    /\ Len(SelectSeq(executed, IsGetTreeOrContent)) <= requests
    /\ Len(out) <= Len(Fetches)
    /\ \A k \in DOMAIN out : Fetches[k].args = <<out[k].id, out[k].version>>
    /\ pc \in {"render", "resolve", "write", "resources"} => Len(out) = requests
    /\ pc = "resolve" =>
           /\ content.type = MODULE_TYPE
           /\ Len(document) = Len(SQL_GET_CONTENT(content.ident)[1])

\* C5's case: main holds its third content or a later one, the resolver is
\* at work on it, and the tree has further contents that come later.
C5_Witness ==
    /\ pc = "resolve"
    /\ requests >= 3
    /\ Len(out) = requests
    /\ Len(Fetches) = requests
    /\ \E i \in DOMAIN stack : stack[i].ids # <<>>

(***************************************************************************)
(* The references of the package.                                          *)
(***************************************************************************)

\* The attributes that hold a reference.
REFERENCE_ATTRS == {"href", "src", "data", "data-src"}

\* The values the resolver has set in the markup written for the modules:
\* the values of reference attributes that differ from the repository's.
RewrittenValuesOf(entry, unit) ==
    LET original == SQL_GET_CONTENT(unit.ident)[1]
    IN  {entry.html[i].attrs[a] :
            <<i, a>> \in {t \in (DOMAIN entry.html) \X REFERENCE_ATTRS :
                /\ t[2] \in DOMAIN entry.html[t[1]].attrs
                /\ entry.html[t[1]].attrs[t[2]] # GetAttr(original[t[1]], t[2])}}

RewrittenValues ==
    UNION {RewrittenValuesOf(epub[t[1]], out[t[2]]) :
              t \in {u \in (DOMAIN epub) \X (DOMAIN out) :
                  /\ out[u[2]].type = MODULE_TYPE
                  /\ "html" \in DOMAIN epub[u[1]]
                  /\ epub[u[1]].name = ContentPath(out[u[2]])}}

\* '../resources/'
RESOURCES_UP == <<".", ".", "/", "r", "e", "s", "o", "u", "r", "c", "e", "s", "/">>

\* The entry of the archive a rewritten value names: for '../resources/<hash>'
\* the path without '../', for '<id>@<version>.html<fragment>' the path
\* under 'contents/' without the fragment.
EntryNamed(value) ==
    IF StartsWith(value, RESOURCES_UP)
    THEN SubSeq(value, 4, Len(value))
    ELSE <<"c", "o", "n", "t", "e", "n", "t", "s", "/">> \o Split(value, "#")[1]

\* C6 (as the specification states it): in the package main has produced,
\* every rewritten reference names an entry of the package.
C6_RewrittenResolveInside ==
    pc = "done" =>
        \A value \in RewrittenValues :
            \E j \in DOMAIN epub : epub[j].name = EntryNamed(value)

(***************************************************************************)
(* The turns of the resolver.                                              *)
(***************************************************************************)

\* The resolver stands before an element.
Turn == pc = "resolve" /\ work # <<>>

\* The value of the attribute of the element the resolver stands before.
Value == GetAttr(document[Head(work).index], Head(work).attr)

\* The repository has no module for the (module_id, version) of a module
\* reference: none with that version, none at all when no version is given.
UnknownModule(module_id, version) ==
    ~\E i \in DOMAIN modules :
        /\ modules[i].moduleid = module_id
        /\ IF Truthy(version) THEN modules[i].legacy_version = version
           ELSE modules[i].latest

\* The href parses as a module reference the repository does not know.
IsUnknownModuleReference(ref) ==
    LET p == parse_reference(ref)
    IN  /\ ~p.raised
        /\ p.type = MODULE_REFERENCE
        /\ UnknownModule(p.value[1], p.value[2])

\* C7: the turn of the resolver on an anchor whose href parses as a module
\* reference with an (id, version) the repository does not know appends one
\* ReferenceNotFound for that href to the document's errors, changes no
\* attribute of any element, raises nothing, and goes on with the next
\* reference.
C7_UnknownModuleNotFound ==
    [][(/\ Turn
        /\ Head(work).surface = "anchor"
        /\ Truthy(Value)
        /\ ~should_ignore_reference(Value)
        /\ IsUnknownModuleReference(Value))
       => /\ messages' = Append(messages,
                            BadReference("ReferenceNotFound", content.ident, Value))
          /\ document' = document
          /\ work' = Tail(work)
          /\ pc' = "resolve"
          /\ exc' = "None"]_vars

\* C7's case: the resolver has returned for a markup that has a reference to
\* an unknown module, recorded, and a second reference.
C7_Witness ==
    /\ pc = "write"
    /\ Len(document) = 2
    /\ \E i \in DOMAIN messages :
           /\ messages[i].kind = "ReferenceNotFound"
           /\ IsUnknownModuleReference(messages[i].reference)
    /\ \E i \in DOMAIN document :
           /\ document[i].tag = "a"
           /\ IsUnknownModuleReference(GetAttr(document[i], "href"))

\* The value matches no expected pattern: the parser fails on it, or gives
\* it neither type.
MatchesNoPattern(ref) ==
    LET p == parse_reference(ref)
    IN  p.raised \/ p.type = NO_REFERENCE

\* C8: the turn of the resolver, on the media or on the anchor surface, on a
\* value that is not excluded and matches no expected pattern appends one
\* InvalidReference for that value, changes no attribute of any element,
\* looks nothing up, and goes on.
C8_NoPatternInvalid ==
    [][(/\ Turn
        /\ Truthy(Value)
        /\ ~should_ignore_reference(Value)
        /\ MatchesNoPattern(Value))
       => /\ messages' = Append(messages,
                            BadReference("InvalidReference", content.ident, Value))
          /\ document' = document
          /\ executed' = executed
          /\ work' = Tail(work)
          /\ pc' = "resolve"]_vars

\* C8's case: the resolver has returned for a markup with a media element
\* and an anchor whose values match no pattern, both recorded as invalid.
C8_Witness ==
    /\ pc = "write"
    /\ Len(messages) = 2
    /\ \A i \in DOMAIN messages :
           /\ messages[i].kind = "InvalidReference"
           /\ MatchesNoPattern(messages[i].reference)
    /\ \E i, j \in DOMAIN document :
           /\ document[i].tag = "img"
           /\ document[i].attrs.src = messages[1].reference
           /\ document[j].tag = "a"
           /\ GetAttr(document[j], "href") = messages[2].reference

\* What main holds of the bad references once render_to_html has returned.
Delivered == IF "bad_refs" \in DOMAIN rendered THEN rendered.bad_refs ELSE <<>>

\* C9 (as the specification states it): the errors the resolver has
\* collected for a document reach the caller with the document's unit: when
\* render_to_html has returned for a module, main holds one error for each
\* error the resolver recorded.
C9_ErrorsReachCaller ==
    (pc = "write" /\ content.type = MODULE_TYPE) => Delivered = messages

\* The exclusion list as the specification gives it: the empty value, an
\* in-page anchor, the schemes, the /help prefix.
Excluded(ref) ==
    \/ ref = <<>>
    \/ StartsWith(ref, <<"#">>)
    \/ StartsWith(ref, <<"h", "t", "t", "p", ":">>)
    \/ StartsWith(ref, <<"h", "t", "t", "p", "s", ":">>)
    \/ StartsWith(ref, <<"m", "a", "i", "l", "t", "o", ":">>)
    \/ StartsWith(ref, <<"f", "t", "p", ":">>)
    \/ StartsWith(ref, <<"f", "i", "l", "e", ":">>)
    \/ StartsWith(ref, <<"j", "a", "v", "a", "s", "c", "r", "i", "p", "t", ":">>)
    \/ StartsWith(ref, <<"/", "h", "e", "l", "p">>)

\* C10: the turn of the resolver on a value of the exclusion list passes
\* nothing to the parser, executes no statement, records no error and
\* leaves every attribute as it is.
C10_ExcludedUntouched ==
    [][(Turn /\ Excluded(Value))
       => /\ parsed' = parsed
          /\ executed' = executed
          /\ messages' = messages
          /\ document' = document
          /\ work' = Tail(work)
          /\ pc' = "resolve"
          /\ exc' = "None"]_vars

\* C10's case: the resolver has returned for a markup of an anchor and a
\* media element whose values are both on the exclusion list.
C10_Witness ==
    /\ pc = "write"
    /\ content.type = MODULE_TYPE
    /\ parsed = <<>>
    /\ messages = <<>>
    /\ \E i, j \in DOMAIN document :
           /\ document[i].tag = "a"
           /\ Excluded(GetAttr(document[i], "href"))
           /\ document[j].tag \in {"img", "object", "span"}
           /\ \E a \in {"src", "data", "data-src"} : Excluded(GetAttr(document[j], a))

(***************************************************************************)
(* A media reference the repository resolves.                              *)
(***************************************************************************)

\* The module_ident of the document that owns the file of a resource
\* reference: the resolver's own document when the reference names no
\* module, 0 when it names one the repository does not have.
OwnerIdent(self_ident, module_id, version) ==
    IF ~Truthy(module_id) THEN self_ident
    ELSE LET owners == {i \in DOMAIN modules :
                           /\ modules[i].moduleid = module_id
                           /\ IF Truthy(version)
                              THEN modules[i].legacy_version = version
                              ELSE modules[i].latest}
         IN  IF owners = {} THEN 0
             ELSE modules[CHOOSE i \in owners : TRUE].module_ident

\* The files the repository has under a name for a document.
FilesOf(document_ident, filename) ==
    {i \in DOMAIN module_files :
        /\ module_files[i].module_ident = document_ident
        /\ module_files[i].filename = filename}

\* The value parses as a resource reference for which the repository has a
\* file.
IsResolvableResource(self_ident, ref) ==
    LET p == parse_reference(ref)
    IN  /\ ~p.raised
        /\ p.type = RESOURCE_REFERENCE
        /\ FilesOf(OwnerIdent(self_ident, p.value[2], p.value[3]), p.value[1]) # {}

\* The element with the three attributes of the file the reference names.
Resolved(self_ident, elem, attr, ref) ==
    LET p == parse_reference(ref)
        file == module_files[CHOOSE i \in FilesOf(OwnerIdent(self_ident, p.value[2], p.value[3]),
                                                  p.value[1]) : TRUE]
    IN  [elem EXCEPT !.attrs =
            [a \in DOMAIN elem.attrs \cup {attr, "data-filename", "data-mediatype"} |->
                IF a = attr THEN RESOURCES_UP \o file.md5
                ELSE IF a = "data-filename" THEN file.filename
                ELSE IF a = "data-mediatype" THEN file.mimetype
                ELSE elem.attrs[a]]]

\* C11 (as the specification states it): the turn of the resolver on a media
\* element whose value parses as a resource reference the repository has a
\* file for sets the attribute to '../resources/<hash>', sets data-filename
\* and data-mediatype, and records no error.
C11_MediaRewritten ==
    [][(/\ Turn
        /\ Head(work).surface = "media"
        /\ Truthy(Value)
        /\ ~should_ignore_reference(Value)
        /\ IsResolvableResource(content.ident, Value))
       => /\ document' = [document EXCEPT ![Head(work).index] =
                             Resolved(content.ident, @, Head(work).attr, Value)]
          /\ messages' = messages
          /\ pc' = "resolve"]_vars

(***************************************************************************)
(* A module reference to the latest version.                               *)
(***************************************************************************)

\* '/latest'
SLASH_LATEST == <<"/", "l", "a", "t", "e", "s", "t">>

\* The part of a value before its first '#'.
BeforeFragment(ref) == Split(ref, "#")[1]

\* The value is an id, '/latest' and a fragment that begins with '#'.
HasLatestShape(ref) ==
    LET path == BeforeFragment(ref)
        n == Len(path) - Len(SLASH_LATEST)
    IN  /\ Len(path) < Len(ref)
        /\ n > 0
        /\ SubSeq(path, n + 1, Len(path)) = SLASH_LATEST
        /\ \A i \in 1..n : path[i] \notin {"/", "@", " "}

\* The id and the fragment of such a value.
LatestId(ref) == SubSeq(ref, 1, Len(BeforeFragment(ref)) - Len(SLASH_LATEST))
LatestFragment(ref) == SubSeq(ref, Len(BeforeFragment(ref)) + 1, Len(ref))

\* The shape of a legacy id: 'm' or 'col', in either case, and four or five
\* digits.
IsLegacyId(id) ==
    \E k \in {1, 3} :
        /\ Len(id) - k \in {4, 5}
        /\ [i \in 1..k |-> Lower(id[i])] = SubSeq(IF k = 1 THEN <<"m">> ELSE <<"c", "o", "l">>, 1, k)
        /\ \A i \in (k + 1)..Len(id) : id[i] \in Digits

\* The latest modules the repository has under a legacy id.
LatestOf(id) == {i \in DOMAIN modules : modules[i].moduleid = id /\ modules[i].latest}

\* What the turn on '<id>/latest#<fragment>' does when the value is taken
\* for a module reference: the parser gets the value, the repository is
\* asked for the id with no version, and on a result the href becomes
\* '<uuid>@<version>.html#<fragment>'.
LatestResolved ==
    LET id == LatestId(Value)
        found == LatestOf(id)
        module == modules[CHOOSE i \in found : TRUE]
    IN  /\ parsed' = Append(parsed, Value)
        /\ parse_reference(Value) =
               [raised |-> FALSE, type |-> MODULE_REFERENCE,
                value |-> <<id, None, LatestFragment(Value)>>]
        /\ executed' = Append(executed,
               Statement("SQL_MODULE_UUID_N_VERSION_BY_ID_STATEMENT", <<id>>))
        /\ found # {} =>
               /\ document' = [document EXCEPT ![Head(work).index].attrs.href =
                      module.uuid \o <<"@">> \o module.version
                          \o <<".", "h", "t", "m", "l">> \o LatestFragment(Value)]
               /\ messages' = messages
        /\ pc' = "resolve"

\* C12 (as the specification states it, its example 'm10strong/latest#intro'
\* included): every anchor href made of an id, '/latest' and a '#fragment'
\* is taken for a module reference, looked up with the version absent and
\* rewritten on a result.
C12_LatestAnyId ==
    [][(Turn /\ Head(work).surface = "anchor" /\ Truthy(Value)
             /\ HasLatestShape(Value))
       => LatestResolved]_vars

\* C12, amended: the same for the ids of the legacy shape, 'm' or 'col' and
\* four or five digits (e.g. 'm10003/latest#intro'); 'm10strong' is none and
\* its href is left to the resource references.
C12_LatestLegacyId ==
    [][(Turn /\ Head(work).surface = "anchor" /\ Truthy(Value)
             /\ HasLatestShape(Value) /\ IsLegacyId(LatestId(Value)))
       => LatestResolved]_vars

\* C12's case: the resolver has returned for an anchor whose href was
\* 'm10003/latest#intro' and is 'o@2.1.html#intro'.
C12_Witness ==
    /\ pc = "write"
    /\ content.type = MODULE_TYPE
    /\ \E i \in DOMAIN parsed :
           /\ HasLatestShape(parsed[i])
           /\ IsLegacyId(LatestId(parsed[i]))
           /\ LatestOf(LatestId(parsed[i])) # {}
    /\ \E i \in DOMAIN document :
           /\ document[i].tag = "a"
           /\ GetAttr(document[i], "href") =
                  <<"o", "@", "2", ".", "1", ".", "h", "t", "m", "l", "#", "i", "n", "t", "r", "o">>
    /\ messages = <<>>

(***************************************************************************)
(* A second pass of the resolver.                                          *)
(***************************************************************************)

\* The elements of the resolved markup the resolver has rewritten.
RewrittenElements ==
    {i \in DOMAIN document : document[i] # SQL_GET_CONTENT(content.ident)[1][i]}

\* The turn a resolver for the same document takes on an element of the
\* resolved markup: that of fix_media_references where a media path selects
\* the element, that of fix_anchor_references for an anchor.
SecondTurns(i) ==
    {fix_media_reference(content.ident, document[i], media_xpath[k].attr) :
        k \in {j \in DOMAIN media_xpath :
                  Select(<<document[i]>>, 1, media_xpath[j], "media") # <<>>}}
    \cup (IF document[i].tag = "a"
          THEN {fix_anchor_reference(content.ident, document[i])}
          ELSE {})

\* C13 (as the specification states it): once the resolver has returned for
\* a document, a second pass over the markup is a no-op on every value the
\* first pass wrote: the turn on it changes no attribute, executes no
\* statement, records no error and raises nothing.
C13_SecondPassNoOp ==
    (pc = "write" /\ content.type = MODULE_TYPE) =>
        \A i \in RewrittenElements :
            \A turn \in SecondTurns(i) :
                /\ turn.elem = document[i]
                /\ turn.statements = <<>>
                /\ turn.bad = <<>>
                /\ turn.raised = "None"

(***************************************************************************)
(* The shape of a rewritten href.                                          *)
(***************************************************************************)

\* s ends with t.
EndsWith(s, t) == Len(t) <= Len(s) /\ SubSeq(s, Len(s) - Len(t) + 1, Len(s)) = t

\* '<uuid>@<version>.html' of a module of the repository.
CanonicalPath(module) ==
    module.uuid \o <<"@">> \o module.version \o <<".", "h", "t", "m", "l">>

\* The href is the canonical path of a module followed by nothing, or by a
\* fragment that begins with '#' and ends the original href.
HasCanonicalShape(href, original) ==
    \E i \in DOMAIN modules :
        LET path == CanonicalPath(modules[i])
            tail == SubSeq(href, Len(path) + 1, Len(href))
        IN  /\ StartsWith(href, path)
            /\ \/ tail = <<>>
               \/ Head(tail) = "#" /\ EndsWith(original, tail)

\* C14 (as the specification states it): every href the resolver has
\* written for a module reference is '<uuid>@<version>.html' followed by
\* nothing or by the original fragment, which begins with '#'.
C14_CanonicalShape ==
    (pc \in {"resolve", "write"} /\ content.type = MODULE_TYPE) =>
        \A i \in RewrittenElements :
            LET original == GetAttr(SQL_GET_CONTENT(content.ident)[1][i], "href")
            IN  (document[i].tag = "a"
                    /\ parse_reference(original).type = MODULE_REFERENCE)
                => HasCanonicalShape(GetAttr(document[i], "href"), original)

(***************************************************************************)
(* Contents listed more than once.                                         *)
(***************************************************************************)

\* C15 (as the specification states it): no (id, version) occurs more than
\* once in the sequence extract_content produces; stated for the trees
\* whose every content is fetched within MaxDepth generators, so that a
\* collection that contains itself through another is not what refutes it.
C15_EachOnce ==
    \/ \A i, j \in DOMAIN out :
           i # j => ~(out[i].id = out[j].id /\ out[i].version = out[j].version)
    \/ ~TreeFetchable

(***************************************************************************)
(* Sub-collections.                                                        *)
(***************************************************************************)

\* A list of members with every sub-collection replaced, at its place, by
\* its own members.
RECURSIVE Splice(_)
Splice(members) ==
    IF members = <<>> THEN <<>>
    ELSE (IF Head(members).id = SUBCOL
          THEN Splice(Head(members).contents)
          ELSE <<Head(members)>>) \o Splice(Tail(members))

\* C16: a sub-collection node ('subcol') is never yielded and never fetched:
\* its id is in no generator's list of ident hashes, names no generator, is
\* in no execution of SQL_GET_MODULE and in no content yielded; and its
\* members come at its place: the ident hashes of a tree are those of the
\* tree with every sub-collection replaced by its members, an empty
\* sub-collection by nothing.
C16_PlaceholdersTransparent ==
    /\ \A k \in DOMAIN out : out[k].id # SUBCOL
    /\ \A k \in DOMAIN Fetches : Fetches[k].args[1] # SUBCOL
    /\ \A f \in DOMAIN stack :
           /\ stack[f].id # SUBCOL
           /\ \A j \in DOMAIN stack[f].ids : stack[f].ids[j] # SUBCOL
    /\ flatten_tree_to_ident_hashs(
           Tree(IdentHash(db.id, db.version), db.members), FALSE).ids
       = flatten_tree_to_ident_hashs(
           Tree(IdentHash(db.id, db.version), Splice(db.members)), FALSE).ids

\* C16's case: a finished run of a tree with a sub-collection that holds a
\* module and an empty sub-collection, after another member; the module has
\* been yielded after that member.
C16_Witness ==
    /\ pc = "done"
    /\ Len(db.members) = 2
    /\ db.members[2].id = SUBCOL
    /\ db.members[1].id # SUBCOL
    /\ Len(out) >= 3
    /\ out[Len(out)].id = <<"y">>
    /\ Len(Fetches) = Len(out)

(***************************************************************************)
(* The document an error names.                                            *)
(***************************************************************************)

\* C17 (as the specification states it): every error the resolver records
\* carries as its document the document being resolved, the resolver's own
\* document_ident, whichever place of the code records it.
C17_ErrorsNameTheDocument ==
    (pc \in {"resolve", "write"} /\ content.type = MODULE_TYPE) =>
        \A k \in DOMAIN messages : messages[k].document_ident = content.ident

====
